---- MODULE Spec2Model ----
(***************************************************************************)
(* Cohort report pipeline of app.py: the CSV uploads kept in Airtable are  *)
(* concatenated, cleaned, anchored on each customer's first purchase,      *)
(* labelled with a cohort under two policies, aggregated into LTV, Revenue *)
(* and Repeat Purchase Rate matrices, written to the temporary directory   *)
(* and posted to the webhook.                                              *)
(*                                                                         *)
(* Data frames are records [columns, rows]; rows is a sequence of records. *)
(* Amounts are in cents.  A datetime is the integer yyyymmdd.  The pandas  *)
(* semantics modelled are those of pandas 2.2, the first release that has  *)
(* the option set on line 30 of app.py.                                    *)
(***************************************************************************)
EXTENDS Integers, Sequences, FiniteSets, TLC

\* ------------------------------------------------------------------------
\* Missing values
\* ------------------------------------------------------------------------

\* read_csv turns an empty cell into NaN; in the string columns
\* (customer_email, order_id, product_title) the empty string stands for it.
NA == ""

\* pd.to_datetime(errors='coerce') gives NaT for a cell that is no date.
NaT == 0

\* pd.to_numeric(errors='coerce') gives NaN for a cell that is no number; no
\* amount and no month offset of the model equals this value.
NaN == -1000000

\* ------------------------------------------------------------------------
\* Cell conversions
\* ------------------------------------------------------------------------

\* pd.to_numeric on the text of a total_sales cell, in cents.
ToNumeric(s) ==
    CASE s = "0"     -> 0
      [] s = "5.00"  -> 500
      [] s = "7.00"  -> 700
      [] s = "10.00" -> 1000
      [] s = "20.00" -> 2000
      [] OTHER       -> NaN

\* pd.to_datetime on the text of a day cell.
ToDatetime(s) ==
    CASE s = "2024-01-01" -> 20240101
      [] s = "2024-01-05" -> 20240105
      [] s = "2024-02-10" -> 20240210
      [] s = "2024-03-15" -> 20240315
      [] OTHER            -> NaT

\* Timestamp.strftime('%Y-%m-%d').
Strftime(d) ==
    CASE d = 20240101 -> "2024-01-01"
      [] d = 20240105 -> "2024-01-05"
      [] d = 20240210 -> "2024-02-10"
      [] d = 20240315 -> "2024-03-15"
      [] OTHER        -> "NaT"

Year(d) == d \div 10000
MonthOf(d) == (d \div 100) % 100

\* Series.dt.to_period('M'): the year-month, written as a Period prints and
\* sorts ('2024-01'); NaT gives a missing value.
ToPeriodM(d) ==
    CASE d = NaT             -> NA
      [] d \div 100 = 202401 -> "2024-01"
      [] d \div 100 = 202402 -> "2024-02"
      [] d \div 100 = 202403 -> "2024-03"

\* Series.astype(str) on a string column: NaN becomes the text 'nan'.
AsTypeStr(s) == IF s = NA THEN "nan" ELSE s

\* Python's order on the strings of the model (code point order).
StrOrder == <<"2024-01", "2024-02", "2024-03", "Gadget", "Widget", "a@x.com", "b@x.com", "nan">>
Rank(s) == CHOOSE i \in 1..Len(StrOrder) : StrOrder[i] = s
RankLast == Len(StrOrder) + 1

\* ------------------------------------------------------------------------
\* Sequence helpers
\* ------------------------------------------------------------------------

Range(s) == {s[i] : i \in 1..Len(s)}

RECURSIVE SumSeq(_)
SumSeq(s) == IF s = <<>> THEN 0 ELSE s[1] + SumSeq(Tail(s))

SetMin(S) == CHOOSE x \in S : \A y \in S : x <= y

SetMax(S) == CHOOSE x \in S : \A y \in S : y <= x

\* The elements of a finite set of integers in ascending order.
RECURSIVE SortedSeq(_)
SortedSeq(S) == IF S = {} THEN <<>> ELSE <<SetMin(S)>> \o SortedSeq(S \ {SetMin(S)})

Column(rows, name) == [i \in 1..Len(rows) |-> rows[i][name]]

\* The first entry of a column that is not the missing value na, else na.
FirstValid(col, na) ==
    IF \E i \in 1..Len(col) : col[i] # na
      THEN col[SetMin({i \in 1..Len(col) : col[i] # na})]
      ELSE na

\* The lexicographic order on sort keys, tuples of integers of one length.
RECURSIVE KeyLess(_, _)
KeyLess(a, b) ==
    /\ a # <<>>
    /\ \/ a[1] < b[1]
       \/ (a[1] = b[1] /\ KeyLess(Tail(a), Tail(b)))

\* A stable sort of s by keys (key[i] is the key of s[i]): equal keys keep
\* their order (np.lexsort is stable).
StableSort(s, key) ==
    LET pos(i) == 1 + Cardinality({j \in 1..Len(s) :
                        \/ KeyLess(key[j], key[i])
                        \/ (~KeyLess(key[i], key[j]) /\ j < i)})
    IN  [k \in 1..Len(s) |-> s[CHOOSE i \in 1..Len(s) : pos(i) = k]]

\* ------------------------------------------------------------------------
\* combine_csv_files
\* ------------------------------------------------------------------------

CsvColumns == {"customer_email", "order_id", "day", "product_title", "total_sales"}

\* pd.DataFrame(): no column, no row.
EmptyFrame == [columns |-> {}, rows |-> <<>>]

\* pd.read_csv on the text of one attachment (a sequence of lines of cells).
ReadCsv(table) == [columns |-> CsvColumns, rows |-> table]

\* A concat that leaves out the rows the frame already has.
ConcatDropDuplicates(a, b) ==
    [columns |-> a.columns \cup b.columns,
     rows    |-> a.rows \o SelectSeq(b.rows, LAMBDA r : r \notin Range(a.rows))]

\* pd.concat([combined_data, csv_data]): all rows of both, none removed.
Concat(a, b) == [columns |-> a.columns \cup b.columns, rows |-> a.rows \o b.rows]

\* combine_csv_files: the loop of lines 62-64 run to its end.
RECURSIVE CombineCsvFiles(_)
CombineCsvFiles(csv_records) ==
    IF csv_records = <<>> THEN EmptyFrame
    ELSE Concat(CombineCsvFiles(SubSeq(csv_records, 1, Len(csv_records) - 1)),
                ReadCsv(csv_records[Len(csv_records)]))

\* ------------------------------------------------------------------------
\* process_combined_data
\* ------------------------------------------------------------------------

\* Line 70: total_sales to numbers.
ParseTotalSales(rows) ==
    [i \in 1..Len(rows) |-> [rows[i] EXCEPT !.total_sales = ToNumeric(@)]]

\* The mask of line 73 computed and its result not kept.
DropNoiseNotKept(rows) == rows

\* Line 73: drop the rows with total_sales 0 and no product_title.
DropNoise(rows) ==
    SelectSeq(rows, LAMBDA r : ~(r.total_sales = 0 /\ r.product_title = NA))

\* Line 76: day to datetimes.
ParseDay(rows) ==
    [i \in 1..Len(rows) |-> [rows[i] EXCEPT !.day = ToDatetime(@)]]

\* Line 79: drop the rows whose day is NaT.
DropInvalidDay(rows) == SelectSeq(rows, LAMBDA r : r.day # NaT)

\* Lines 70-79.
FilterRows(rows) == DropInvalidDay(ParseDay(DropNoise(ParseTotalSales(rows))))

\* Sort keys; NaN sorts last in every column, whatever the direction.
EmailKey(r) == IF r.customer_email = NA THEN RankLast ELSE Rank(r.customer_email)
TitleKeyDesc(r) == IF r.product_title = NA THEN RankLast ELSE 0 - Rank(r.product_title)

\* Line 82: customer_email ascending, day ascending, product_title descending.
FirstPurchaseKey(r) == <<EmailKey(r), r.day, TitleKeyDesc(r)>>

SortForFirstPurchase(rows) ==
    StableSort(rows, [i \in 1..Len(rows) |-> FirstPurchaseKey(rows[i])])

\* The customers of a frame: groupby('customer_email') leaves NaN keys out.
Customers(rows) == {rows[i].customer_email : i \in 1..Len(rows)} \ {NA}

CustomerRows(rows, e) == SelectSeq(rows, LAMBDA r : r.customer_email = e)

\* Lines 85-86: groupby('customer_email').first() takes, column by column,
\* the first value of the group that is not null.
FirstOrder(rows) ==
    [e \in Customers(rows) |->
        LET g == CustomerRows(rows, e)
        IN  [first_order_id     |-> FirstValid(Column(g, "order_id"), NA),
             first_purchase_day |-> FirstValid(Column(g, "day"), NaT),
             first_product      |-> FirstValid(Column(g, "product_title"), NA)]]

\* Line 89: left merge on customer_email; a row without customer_email finds
\* no partner and gets missing values.
MergeFirstOrder(rows, first_order) ==
    [i \in 1..Len(rows) |->
        IF rows[i].customer_email \in DOMAIN first_order
          THEN rows[i] @@ first_order[rows[i].customer_email]
          ELSE rows[i] @@ [first_order_id |-> NA, first_purchase_day |-> NaT,
                           first_product |-> NA]]

\* Only the first row of a customer marked, not every row of the first order.
MarkFirstRowOnly(rows) ==
    [i \in 1..Len(rows) |->
        rows[i] @@ [is_first_purchase |->
                      (/\ rows[i].customer_email # NA
                       /\ \A j \in 1..(i - 1) :
                             rows[j].customer_email # rows[i].customer_email)]]

\* Line 95: order_id == first_order_id; NaN equals nothing.
MarkFirstPurchase(rows) ==
    [i \in 1..Len(rows) |->
        rows[i] @@ [is_first_purchase |->
                      (rows[i].order_id # NA /\ rows[i].order_id = rows[i].first_order_id)]]

\* Series.ffill() and Series.bfill(), over the whole column.
Ffill(col, na) ==
    [i \in 1..Len(col) |->
        IF \E j \in 1..i : col[j] # na
          THEN col[SetMax({j \in 1..i : col[j] # na})]
          ELSE na]

Bfill(col, na) ==
    [i \in 1..Len(col) |->
        IF \E j \in i..Len(col) : col[j] # na
          THEN col[SetMin({j \in i..Len(col) : col[j] # na})]
          ELSE na]

\* Lines 98-99.
FillFirstPurchase(rows) ==
    LET d == Bfill(Ffill(Column(rows, "first_purchase_day"), NaT), NaT)
        p == Bfill(Ffill(Column(rows, "first_product"), NA), NA)
    IN  [i \in 1..Len(rows) |->
            [rows[i] EXCEPT !.first_purchase_day = d[i], !.first_product = p[i]]]

\* Line 105.
AddPurchaseMonth(rows) ==
    [i \in 1..Len(rows) |-> rows[i] @@ [purchase_month |-> ToPeriodM(rows[i].day)]]

\* The exception process_combined_data raises, "none" when it returns:
\* line 70 reads a column the frame of zero uploads does not have; on a frame
\* without rows the day column keeps dtype object and line 105 finds no .dt.
ProcessError(df) ==
    IF "total_sales" \notin df.columns THEN "KeyError"
    ELSE IF FilterRows(df.rows) = <<>> THEN "AttributeError"
    ELSE "none"

ProcessedColumns ==
    CsvColumns \cup {"first_order_id", "first_purchase_day", "first_product",
                     "is_first_purchase", "purchase_month"}

ProcessRows(rows) ==
    LET sorted == SortForFirstPurchase(FilterRows(rows))
        merged == MergeFirstOrder(sorted, FirstOrder(sorted))
    IN  AddPurchaseMonth(FillFirstPurchase(MarkFirstPurchase(merged)))

ProcessCombinedData(df) ==
    [columns |-> ProcessedColumns, rows |-> ProcessRows(df.rows)]

\* ------------------------------------------------------------------------
\* Cohort assignment
\* ------------------------------------------------------------------------

cohort_types == <<"Month", "First Product Purchased">>

\* A column assignment: the column is overwritten, or added when new.
SetColumn(r, name, v) ==
    [c \in (DOMAIN r) \cup {name} |-> IF c = name THEN v ELSE r[c]]

\* Line 114: groupby('customer_email')['day'].transform('min'); a row without
\* customer_email belongs to no group and gets NaT.
MinDay(rows, e) ==
    IF e = NA THEN NaT
    ELSE SetMin({rows[i].day : i \in {j \in 1..Len(rows) : rows[j].customer_email = e}})

\* The exception generate_monthly_cohort raises, "none" when it returns: when
\* no row has a customer_email the column is all NaT, keeps dtype object, and
\* line 116 finds no .dt.
MonthlyCohortError(rows) ==
    IF \A i \in 1..Len(rows) : rows[i].customer_email = NA
      THEN "AttributeError" ELSE "none"

\* generate_monthly_cohort: in place, on the frame it is given.
GenerateMonthlyCohort(rows) ==
    [i \in 1..Len(rows) |->
        LET d == MinDay(rows, rows[i].customer_email)
        IN  SetColumn([rows[i] EXCEPT !.first_purchase_day = d], "cohort", ToPeriodM(d))]

\* Line 122: customer_email ascending, day ascending.
EmailDayKey(r) == <<EmailKey(r), r.day>>

\* generate_first_product_cohort: on a copy without the rows that have no
\* customer_email.
GenerateFirstProductCohort(rows) ==
    LET with_email == SelectSeq(rows, LAMBDA r : r.customer_email # NA)
        kept == StableSort(with_email,
                           [i \in 1..Len(with_email) |-> EmailDayKey(with_email[i])])
    IN  [i \in 1..Len(kept) |->
            SetColumn([kept[i] EXCEPT !.first_product = AsTypeStr(@)],
                      "cohort", AsTypeStr(kept[i].first_product))]

\* ------------------------------------------------------------------------
\* generate_reports_for_cohort
\* ------------------------------------------------------------------------

\* Lines 131-135.
AssignCohort(rows, cohort_type) ==
    [i \in 1..Len(rows) |->
        IF cohort_type = "Month"
          THEN SetColumn(rows[i], "cohort", ToPeriodM(rows[i].first_purchase_day))
          ELSE SetColumn([rows[i] EXCEPT !.first_product = AsTypeStr(@)],
                         "cohort", AsTypeStr(rows[i].first_product))]

\* Line 140; NaT has no year, the difference is NaN.
MonthsSince(r) ==
    IF r.first_purchase_day = NaT THEN NaN
    ELSE (Year(r.day) - Year(r.first_purchase_day)) * 12
         + (MonthOf(r.day) - MonthOf(r.first_purchase_day))

AddMonthsSince(rows) ==
    [i \in 1..Len(rows) |->
        SetColumn(rows[i], "months_since_first_purchase", MonthsSince(rows[i]))]

\* Line 164.
AddIsRepeatPurchase(rows) ==
    [i \in 1..Len(rows) |->
        SetColumn(rows[i], "is_repeat_purchase", ~rows[i].is_first_purchase)]

\* groupby leaves out the rows whose key is null: a NaT cohort (only the
\* Month policy has one: astype(str) leaves no null), a NaN month offset.
HasCohort(r) == r.cohort # NA

HasCell(r) == HasCohort(r) /\ r.months_since_first_purchase # NaN

\* Line 143: the (cohort, months_since_first_purchase) groups and their sums;
\* sum() skips NaN.
SpendGroups(rows) ==
    {<<rows[i].cohort, rows[i].months_since_first_purchase>> :
        i \in {j \in 1..Len(rows) : HasCell(rows[j])}}

SalesOrZero(x) == IF x = NaN THEN 0 ELSE x

TotalSales(rows, c, m) ==
    LET g == SelectSeq(rows, LAMBDA r : /\ HasCell(r)
                                         /\ r.cohort = c
                                         /\ r.months_since_first_purchase = m)
    IN  SumSeq([i \in 1..Len(g) |-> SalesOrZero(g[i].total_sales)])

\* Line 145: cumsum within the cohort, over its groups in ascending month.
CumulativeTotalSpent(rows, c, m) ==
    LET before == {g \in SpendGroups(rows) : g[1] = c /\ g[2] <= m}
        ms == SortedSeq({g[2] : g \in before})
    IN  SumSeq([i \in 1..Len(ms) |-> TotalSales(rows, c, ms[i])])

\* Line 148: groupby('cohort')['customer_email'].nunique(); NaN is not counted.
CohortCustomers(rows, c) ==
    {rows[i].customer_email :
        i \in {j \in 1..Len(rows) : HasCohort(rows[j]) /\ rows[j].cohort = c}}
    \ {NA}

\* count() in the place of nunique(): the rows of the cohort.
CohortSizesCount(rows) ==
    [c \in {rows[i].cohort : i \in {j \in 1..Len(rows) : HasCohort(rows[j])}}
        |-> Cardinality({j \in 1..Len(rows) : HasCohort(rows[j]) /\ rows[j].cohort = c})]

CohortSizes(rows) ==
    [c \in {rows[i].cohort : i \in {j \in 1..Len(rows) : HasCohort(rows[j])}}
        |-> Cardinality(CohortCustomers(rows, c))]

\* A matrix cell is a fraction; fill_value=0 and the NaN that concat leaves in
\* the row of a cohort the pivot does not have.
Frac(n, d) == [num |-> n, den |-> d]
ZeroCell == Frac(0, 1)
NaNCell == Frac(NaN, 1)

\* pivot_table(index='cohort', columns='months_since_first_purchase',
\* fill_value=0) over the groups, then pd.concat([cohort_sizes, pivot], axis=1).
Matrix(sizes, value) ==
    LET groups == DOMAIN value
        cols == {g[2] : g \in groups}
        pivoted == {g[1] : g \in groups}
    IN  [index       |-> DOMAIN sizes,
         columns     |-> cols,
         cohort_size |-> sizes,
         cell        |-> [p \in (DOMAIN sizes) \X cols |->
                            IF p \in groups THEN value[p]
                            ELSE IF p[1] \in pivoted THEN ZeroCell
                            ELSE NaNCell]]

\* Lines 153, 156, 160.
LtvMatrix(rows) ==
    LET sizes == CohortSizes(rows)
    IN  Matrix(sizes, [g \in SpendGroups(rows) |->
                         Frac(CumulativeTotalSpent(rows, g[1], g[2]), sizes[g[1]])])

\* Lines 157, 161.
RevenueMatrix(rows) ==
    Matrix(CohortSizes(rows),
           [g \in SpendGroups(rows) |-> Frac(TotalSales(rows, g[1], g[2]), 1)])

\* Line 165: the customers with a repeat purchase in a cell.
RepeatPurchasers(rows, c, m) ==
    {rows[i].customer_email :
        i \in {j \in 1..Len(rows) : /\ rows[j].is_repeat_purchase
                                     /\ HasCell(rows[j])
                                     /\ rows[j].cohort = c
                                     /\ rows[j].months_since_first_purchase = m}}
    \ {NA}

RepeatGroups(rows) ==
    {<<rows[i].cohort, rows[i].months_since_first_purchase>> :
        i \in {j \in 1..Len(rows) : rows[j].is_repeat_purchase /\ HasCell(rows[j])}}

\* Lines 165-172.
RepeatPurchaseRateMatrix(rows) ==
    LET sizes == CohortSizes(rows)
    IN  Matrix(sizes, [g \in RepeatGroups(rows) |->
                         Frac(Cardinality(RepeatPurchasers(rows, g[1], g[2])), sizes[g[1]])])

\* The frame generate_reports_for_cohort leaves behind (it works in place).
ReportFrame(rows, cohort_type) ==
    AddIsRepeatPurchase(AddMonthsSince(AssignCohort(rows, cohort_type)))

\* The reports dictionary of lines 198-202.
report_types == <<"LTV", "Revenue", "Repeat Purchase Rate">>

GenerateReportsForCohort(rows, cohort_type) ==
    LET df == ReportFrame(rows, cohort_type)
    IN  [t \in Range(report_types) |->
            CASE t = "LTV"     -> LtvMatrix(df)
              [] t = "Revenue" -> RevenueMatrix(df)
              [] OTHER         -> RepeatPurchaseRateMatrix(df)]

\* DataFrame.to_csv: a header line, then one line per cohort in index order
\* (groupby sorts the cohorts), the month offsets in ascending order.
CohortsBelow(index, c) == {d \in index : Rank(d) < Rank(c)}

ToCsv(m) ==
    LET cols == SortedSeq(m.columns)
        idx == [k \in 1..Cardinality(m.index) |->
                  CHOOSE c \in m.index : Cardinality(CohortsBelow(m.index, c)) = k - 1]
    IN  [header |-> <<"cohort", "cohort_size">>,
         months |-> cols,
         lines  |-> [k \in 1..Len(idx) |->
                      [cohort      |-> idx[k],
                       cohort_size |-> m.cohort_size[idx[k]],
                       cells       |-> [j \in 1..Len(cols) |-> m.cell[<<idx[k], cols[j]>>]]]]]

\* ------------------------------------------------------------------------
\* The uploads the model draws from
\* ------------------------------------------------------------------------

Line(e, o, d, p, s) ==
    [customer_email |-> e, order_id |-> o, day |-> d, product_title |-> p,
     total_sales |-> s]

\* The two rows of the two-table scenario.
WidgetJan == Line("a@x.com", "1", "2024-01-05", "Widget", "10.00")
GadgetFeb == Line("a@x.com", "2", "2024-02-10", "Gadget", "20.00")
\* A second line on the day of the first purchase, its order_id left empty.
GadgetJan == Line("a@x.com", "", "2024-01-05", "Gadget", "5.00")
\* An upload artifact: total_sales 0 and no product_title.
Artifact == Line("a@x.com", "3", "2024-01-01", "", "0")
\* A row whose day is no date.
BadDay == Line("b@x.com", "4", "not a date", "Widget", "10.00")
\* A sale without product_title, then a later sale with unreadable total_sales.
UntitledJan == Line("b@x.com", "5", "2024-01-01", "", "7.00")
GadgetMar == Line("b@x.com", "6", "2024-03-15", "Gadget", "abc")
\* A guest checkout: no customer_email.
Guest == Line("", "7", "2024-02-10", "Widget", "10.00")

RowDomain ==
    {WidgetJan, GadgetFeb, GadgetJan, Artifact, BadDay, UntitledJan, GadgetMar, Guest}

ScenarioTable == <<WidgetJan, GadgetFeb>>

\* A CSV upload: a header alone, one line, or the scenario's two lines.
TableDomain == {<<>>, ScenarioTable} \cup {<<r>> : r \in RowDomain}

\* The largest number of uploads in the Airtable table.
MaxTables == 3

Stores == UNION {[1..n -> TableDomain] : n \in 0..MaxTables}

\* ------------------------------------------------------------------------
\* State
\* ------------------------------------------------------------------------

VARIABLES
    airtable_uploads,   \* the records of the Airtable uploads table, one CSV each
    clock,              \* the wall clock, in ticks
    tmpdir,             \* the files of tempfile.gettempdir(): file name -> content
    webhook,            \* the posts MAKE_WEBHOOK_URL has accepted
    run                 \* per request: the locals of generate_and_upload_reports

vars == <<airtable_uploads, clock, tmpdir, webhook, run>>

\* The requests, named by the record_id they carry.
RunIds == {"rec1", "rec2"}

\* Clock ticks in one second, and the last tick of the model's clock.
TicksPerSecond == 2
MaxClock == 2

\* datetime.now().strftime('%Y%m%d_%H%M%S'): the clock cut to whole seconds.
Timestamp(t) == t \div TicksPerSecond

\* f"{report_type}_{cohort_type}_{timestamp}.csv"
ReportFilename(report_type, cohort_type, timestamp) ==
    <<report_type, cohort_type, timestamp, ".csv">>

NoFiles == [f \in {} |-> NA]

IdleRun ==
    [pc            |-> "idle",
     csv_records   |-> <<>>,
     fetched       |-> 0,
     combined_data |-> EmptyFrame,
     timestamp     |-> 0,
     policy        |-> 1,
     cohort_data   |-> <<>>,
     reports       |-> <<>>,
     report        |-> 1,
     error         |-> "none"]

Init ==
    /\ airtable_uploads \in Stores
    /\ clock = 0
    /\ tmpdir = NoFiles
    /\ webhook = {}
    /\ run = [r \in RunIds |-> IdleRun]

\* ------------------------------------------------------------------------
\* generate_reports / generate_and_upload_reports, step by step
\* ------------------------------------------------------------------------

Raise(r, e) ==
    run' = [run EXCEPT ![r] = [@ EXCEPT !.pc = "failed", !.error = e]]

\* POST /generate_reports arrives; combine_csv_files lists the uploads.
Request(r) ==
    /\ run[r].pc = "idle"
    /\ run' = [run EXCEPT ![r] = [@ EXCEPT !.pc = "fetch",
                                            !.csv_records = airtable_uploads,
                                            !.fetched = 0,
                                            !.combined_data = EmptyFrame]]
    /\ UNCHANGED <<airtable_uploads, clock, tmpdir, webhook>>

\* One turn of the loop of combine_csv_files.
FetchCsv(r) ==
    /\ run[r].pc = "fetch"
    /\ run[r].fetched < Len(run[r].csv_records)
    /\ run' = [run EXCEPT ![r] =
                 [@ EXCEPT !.fetched = @ + 1,
                           !.combined_data =
                               Concat(@, ReadCsv(run[r].csv_records[run[r].fetched + 1]))]]
    /\ UNCHANGED <<airtable_uploads, clock, tmpdir, webhook>>

\* fetch_csv_from_airtable raises (no attachment, the download fails).
FetchCsvRaises(r) ==
    /\ run[r].pc = "fetch"
    /\ run[r].fetched < Len(run[r].csv_records)
    /\ Raise(r, "ValueError")
    /\ UNCHANGED <<airtable_uploads, clock, tmpdir, webhook>>

\* Lines 181-182: process_combined_data returns, the timestamp is taken.
ProcessData(r) ==
    /\ run[r].pc = "fetch"
    /\ run[r].fetched = Len(run[r].csv_records)
    /\ ProcessError(run[r].combined_data) = "none"
    /\ run' = [run EXCEPT ![r] =
                 [@ EXCEPT !.pc = "cohort",
                           !.combined_data = ProcessCombinedData(@),
                           !.timestamp = Timestamp(clock),
                           !.policy = 1]]
    /\ UNCHANGED <<airtable_uploads, clock, tmpdir, webhook>>

ProcessDataRaises(r) ==
    /\ run[r].pc = "fetch"
    /\ run[r].fetched = Len(run[r].csv_records)
    /\ ProcessError(run[r].combined_data) # "none"
    /\ Raise(r, ProcessError(run[r].combined_data))
    /\ UNCHANGED <<airtable_uploads, clock, tmpdir, webhook>>

\* Lines 189-202 for 'Month': generate_monthly_cohort returns the frame it was
\* given, so combined_data itself gets the new columns.
GenerateMonthReports(r) ==
    /\ run[r].pc = "cohort"
    /\ cohort_types[run[r].policy] = "Month"
    /\ MonthlyCohortError(run[r].combined_data.rows) = "none"
    /\ LET cohort_data == GenerateMonthlyCohort(run[r].combined_data.rows)
           left == ReportFrame(cohort_data, "Month")
       IN  run' = [run EXCEPT ![r] =
                     [@ EXCEPT !.pc = "write",
                               !.combined_data =
                                   [columns |-> DOMAIN left[1], rows |-> left],
                               !.cohort_data = left,
                               !.reports = GenerateReportsForCohort(cohort_data, "Month"),
                               !.report = 1]]
    /\ UNCHANGED <<airtable_uploads, clock, tmpdir, webhook>>

GenerateMonthRaises(r) ==
    /\ run[r].pc = "cohort"
    /\ cohort_types[run[r].policy] = "Month"
    /\ MonthlyCohortError(run[r].combined_data.rows) # "none"
    /\ Raise(r, MonthlyCohortError(run[r].combined_data.rows))
    /\ UNCHANGED <<airtable_uploads, clock, tmpdir, webhook>>

\* Lines 189-202 for 'First Product Purchased': generate_first_product_cohort
\* works on a copy, combined_data stays as it is.
GenerateFirstProductReports(r) ==
    /\ run[r].pc = "cohort"
    /\ cohort_types[run[r].policy] = "First Product Purchased"
    /\ LET cohort_data == GenerateFirstProductCohort(run[r].combined_data.rows)
       IN  run' = [run EXCEPT ![r] =
                     [@ EXCEPT !.pc = "write",
                               !.cohort_data =
                                   ReportFrame(cohort_data, "First Product Purchased"),
                               !.reports =
                                   GenerateReportsForCohort(cohort_data,
                                                            "First Product Purchased"),
                               !.report = 1]]
    /\ UNCHANGED <<airtable_uploads, clock, tmpdir, webhook>>

CurrentFilename(r) ==
    ReportFilename(report_types[run[r].report], cohort_types[run[r].policy],
                   run[r].timestamp)

\* Lines 206-208: the report is written to the temporary directory.
WriteReport(r) ==
    /\ run[r].pc = "write"
    /\ tmpdir' = [f \in (DOMAIN tmpdir) \cup {CurrentFilename(r)} |->
                    IF f = CurrentFilename(r)
                      THEN ToCsv(run[r].reports[report_types[run[r].report]])
                      ELSE tmpdir[f]]
    /\ run' = [run EXCEPT ![r] = [@ EXCEPT !.pc = "post"]]
    /\ UNCHANGED <<airtable_uploads, clock, webhook>>

\* The days of lines 218-219.
StartDate(rows) == Strftime(SetMin({rows[i].day : i \in 1..Len(rows)}))
EndDate(rows) == Strftime(SetMax({rows[i].day : i \in 1..Len(rows)}))

\* What the loops of lines 187 and 204 do after a report is posted.
NextReport(rec) ==
    IF rec.report < Len(report_types)
      THEN [rec EXCEPT !.pc = "write", !.report = @ + 1]
    ELSE IF rec.policy < Len(cohort_types)
      THEN [rec EXCEPT !.pc = "cohort", !.policy = @ + 1]
    ELSE [rec EXCEPT !.pc = "done"]

\* Lines 211-223: the file at report_path is opened, read and posted, and the
\* webhook answers with a success status.
PostReport(r) ==
    /\ run[r].pc = "post"
    /\ webhook' = webhook \cup
          {[report_type |-> report_types[run[r].report],
            cohort_type |-> cohort_types[run[r].policy],
            start_date  |-> StartDate(run[r].combined_data.rows),
            end_date    |-> EndDate(run[r].combined_data.rows),
            record_id   |-> r,
            filename    |-> CurrentFilename(r),
            file        |-> tmpdir[CurrentFilename(r)]]}
    /\ run' = [run EXCEPT ![r] = NextReport(@)]
    /\ UNCHANGED <<airtable_uploads, clock, tmpdir>>

\* The webhook answers with an error status (or cannot be reached):
\* raise_for_status raises, generate_reports answers 400.
PostReportRaises(r) ==
    /\ run[r].pc = "post"
    /\ Raise(r, "HTTPError")
    /\ UNCHANGED <<airtable_uploads, clock, tmpdir, webhook>>

RunStep(r) ==
    \/ Request(r)
    \/ FetchCsv(r)
    \/ FetchCsvRaises(r)
    \/ ProcessData(r)
    \/ ProcessDataRaises(r)
    \/ GenerateMonthReports(r)
    \/ GenerateMonthRaises(r)
    \/ GenerateFirstProductReports(r)
    \/ WriteReport(r)
    \/ PostReport(r)
    \/ PostReportRaises(r)

\* One request.
Next == RunStep("rec1")

Spec == Init /\ [][Next]_vars

\* ------------------------------------------------------------------------
\* Two requests at once (the Flask server handles requests in threads)
\* ------------------------------------------------------------------------

\* Time passes.
Tick ==
    /\ clock < MaxClock
    /\ clock' = clock + 1
    /\ UNCHANGED <<airtable_uploads, tmpdir, webhook, run>>

\* Someone adds a CSV upload to the Airtable table while requests are served.
UploadCsv ==
    /\ Len(airtable_uploads) < MaxTables
    /\ airtable_uploads' = Append(airtable_uploads, <<UntitledJan>>)
    /\ UNCHANGED <<clock, tmpdir, webhook, run>>

\* The two-table scenario is in the store when the requests arrive.
InitConc ==
    /\ airtable_uploads = <<ScenarioTable, ScenarioTable>>
    /\ clock = 0
    /\ tmpdir = NoFiles
    /\ webhook = {}
    /\ run = [r \in RunIds |-> IdleRun]

\* Every upload of this specification holds a valid row of a customer, so
\* process_combined_data and generate_monthly_cohort return; Airtable and the
\* webhook answer every call.
NextConc ==
    \/ Tick
    \/ UploadCsv
    \/ \E r \in RunIds :
          \/ Request(r)
          \/ FetchCsv(r)
          \/ ProcessData(r)
          \/ GenerateMonthReports(r)
          \/ GenerateFirstProductReports(r)
          \/ WriteReport(r)
          \/ PostReport(r)

SpecConc == InitConc /\ [][NextConc]_vars

\* ------------------------------------------------------------------------
\* Properties
\* ------------------------------------------------------------------------

\* The posts the webhook has accepted from request r.
Emitted(r) == {p \in webhook : p.record_id = r}

\* The rows request r was handed, all uploads together.
RawRows(r) == CombineCsvFiles(run[r].csv_records).rows

Finished(r) == run[r].pc \in {"done", "failed"}

\* process_combined_data has just returned in request r.
Processed(r) == run[r].pc = "cohort" /\ run[r].policy = 1

\* The reports of the current policy have been computed in request r.
Reported(r) == run[r].pc \in {"write", "post"}

FracLeq(a, b) == a.num * b.den <= b.num * a.den
FracIs(a, cents) == a.num = cents * a.den

\* C1: a request that has ended has emitted all six reports or none: after a
\* failure nothing has been emitted, after a success all six have.
C1_AllOrNothing ==
    \A r \in RunIds :
        /\ run[r].pc = "failed" => Emitted(r) = {}
        /\ run[r].pc = "done" => Cardinality(Emitted(r)) = 6

\* The reports the pipeline computes from the uploads a request was handed.
ReportsOf(csv_records, cohort_type) ==
    LET month == GenerateMonthlyCohort(ProcessRows(CombineCsvFiles(csv_records).rows))
    IN  IF cohort_type = "Month"
          THEN GenerateReportsForCohort(month, "Month")
          ELSE GenerateReportsForCohort(
                   GenerateFirstProductCohort(ReportFrame(month, "Month")),
                   "First Product Purchased")

\* C2: every report the webhook got from a request holds the table that this
\* request computed from the uploads it read.
C2_OwnTables ==
    \A p \in webhook :
        p.file = ToCsv(ReportsOf(run[p.record_id].csv_records,
                                 p.cohort_type)[p.report_type])

\* C3: a request whose uploads were all read and leave no row after filtering
\* ends in a failure of kind NoValidRowsError, with nothing emitted.
C3_NoValidRowsError ==
    \A r \in RunIds :
        (/\ Finished(r)
         /\ run[r].fetched = Len(run[r].csv_records)
         /\ FilterRows(RawRows(r)) = <<>>)
        => (/\ run[r].pc = "failed"
            /\ run[r].error = "NoValidRowsError"
            /\ Emitted(r) = {})

\* C4: the first-purchase anchor of every customer is the customer's first row
\* under the order of line 82: its order_id, its day and its product_title,
\* missing or not.
C4_AnchorIsFirstRow ==
    \A r \in RunIds :
        Processed(r) =>
            LET sorted == SortForFirstPurchase(FilterRows(RawRows(r)))
                anchor == FirstOrder(sorted)
            IN  \A e \in DOMAIN anchor :
                    LET first == CustomerRows(sorted, e)[1]
                    IN  anchor[e] = [first_order_id     |-> first.order_id,
                                     first_purchase_day |-> first.day,
                                     first_product      |-> first.product_title]

\* The rows the filter of the specification keeps.
ValidRow(r) ==
    /\ ToDatetime(r.day) # NaT
    /\ ~(ToNumeric(r.total_sales) = 0 /\ r.product_title = NA)

\* C5: every row process_combined_data returns has a valid day and is not
\* (total_sales 0 with no product_title), and what it returns, anchors
\* included, is what it returns for the valid rows alone: a dropped row
\* supplies no anchor and reaches no aggregate.
C5_FilteringInvariant ==
    \A r \in RunIds :
        Processed(r) =>
            /\ \A i \in 1..Len(run[r].combined_data.rows) :
                  LET x == run[r].combined_data.rows[i]
                  IN  x.day # NaT /\ ~(x.total_sales = 0 /\ x.product_title = NA)
            /\ run[r].combined_data.rows =
                  ProcessRows(SelectSeq(RawRows(r), ValidRow))

C5_Witness ==
    /\ Processed("rec1")
    /\ {Artifact, BadDay, WidgetJan} \subseteq Range(RawRows("rec1"))

\* The cohort key of customer e in the processed frame: the month of the
\* customer's earliest day, or the customer's first product.
CohortKey(rows, cohort_type, e) ==
    IF cohort_type = "Month"
      THEN ToPeriodM(SetMin({rows[i].day :
                               i \in {j \in 1..Len(rows) : rows[j].customer_email = e}}))
      ELSE AsTypeStr(CustomerRows(rows, e)[1].first_product)

\* C6: in all three matrices of either policy the rows are the cohorts of the
\* customers, and cohort_size is the number of distinct customers whose cohort
\* key is the cohort.
C6_CohortSize ==
    \A r \in RunIds :
        Reported(r) =>
            LET rows == run[r].combined_data.rows
                ct == cohort_types[run[r].policy]
                members(c) == {e \in Customers(rows) : CohortKey(rows, ct, e) = c}
            IN  \A t \in Range(report_types) :
                    LET m == run[r].reports[t]
                    IN  /\ m.index = {CohortKey(rows, ct, e) : e \in Customers(rows)}
                        /\ \A c \in m.index : m.cohort_size[c] = Cardinality(members(c))

\* A cohort of two customers, one of them with two rows, under both policies.
C6_Witness ==
    /\ Reported("rec1")
    /\ \E c \in run["rec1"].reports["LTV"].index :
          /\ run["rec1"].reports["LTV"].cohort_size[c] = 2
          /\ Cardinality({i \in 1..Len(run["rec1"].cohort_data) :
                            run["rec1"].cohort_data[i].cohort = c}) > 2

\* C7: without negative total_sales, every row of the LTV matrix is
\* non-decreasing from each month offset to every later one.
C7_LtvMonotone ==
    \A r \in RunIds :
        (/\ Reported(r)
         /\ \A i \in 1..Len(run[r].cohort_data) : run[r].cohort_data[i].total_sales >= 0
                                                   \/ run[r].cohort_data[i].total_sales = NaN)
        => LET m == run[r].reports["LTV"]
           IN  \A c \in m.index : \A m1, m2 \in m.columns :
                   m1 < m2 => FracLeq(m.cell[<<c, m1>>], m.cell[<<c, m2>>])

TwoTableScenario(r) ==
    /\ run[r].csv_records = <<ScenarioTable, ScenarioTable>>
    /\ Reported(r)
    /\ cohort_types[run[r].policy] = "Month"

\* C8 as stated: in the two-table scenario the monthly LTV row of 2024-01 has
\* cohort_size 1, column 0 = 10.00 and column 1 = 30.00.
C8_ScenarioAsStated ==
    \A r \in RunIds :
        TwoTableScenario(r) =>
            LET m == run[r].reports["LTV"]
            IN  /\ m.cohort_size["2024-01"] = 1
                /\ FracIs(m.cell[<<"2024-01", 0>>], 1000)
                /\ FracIs(m.cell[<<"2024-01", 1>>], 3000)

\* C8 amended: in the two-table scenario the monthly LTV row of 2024-01 has
\* cohort_size 1, column 0 = 20.00 and column 1 = 60.00, every row counting
\* once per table.
C8_ScenarioCountsBothTables ==
    \A r \in RunIds :
        TwoTableScenario(r) =>
            LET m == run[r].reports["LTV"]
            IN  /\ m.index = {"2024-01"}
                /\ m.columns = {0, 1}
                /\ m.cohort_size["2024-01"] = 1
                /\ FracIs(m.cell[<<"2024-01", 0>>], 2000)
                /\ FracIs(m.cell[<<"2024-01", 1>>], 6000)

C8_Witness == TwoTableScenario("rec1")

\* C9: after the fill, the first_purchase_day and first_product of every row
\* are values of rows with the same customer_email (or stay missing).
C9_FillWithinCustomer ==
    \A r \in RunIds :
        Processed(r) =>
            LET rows == run[r].combined_data.rows
            IN  \A i \in 1..Len(rows) :
                    LET own == CustomerRows(rows, rows[i].customer_email)
                    IN  /\ rows[i].first_product \in Range(Column(own, "product_title")) \cup {NA}
                        /\ rows[i].first_purchase_day \in Range(Column(own, "day")) \cup {NaT}

\* Customer e has a single order: all rows of e carry one and the same order_id.
SingleOrder(rows, e) ==
    \E o \in {rows[i].order_id : i \in 1..Len(rows)} \ {NA} :
        \A i \in 1..Len(rows) : rows[i].customer_email = e => rows[i].order_id = o

\* C10: under either policy, every row of a customer with a single order is a
\* first purchase, the customer is a repeat purchaser of no cell, and no cell of
\* the Repeat Purchase Rate matrix counts more customers than the cohort has
\* customers with more than one order.
C10_SingleOrderRepeatFree ==
    \A r \in RunIds :
        Reported(r) =>
            LET rows == run[r].cohort_data
                m == run[r].reports["Repeat Purchase Rate"]
            IN  /\ \A e \in Customers(rows) :
                      SingleOrder(rows, e) =>
                          /\ \A i \in 1..Len(rows) :
                                rows[i].customer_email = e => rows[i].is_first_purchase
                          /\ \A c \in m.index : \A k \in m.columns :
                                e \notin RepeatPurchasers(rows, c, k)
                /\ \A c \in m.index : \A k \in m.columns :
                      m.cell[<<c, k>>].num <=
                          Cardinality({e \in CohortCustomers(rows, c) : ~SingleOrder(rows, e)})

\* A customer with two rows of one order beside a customer who buys again.
C10_Witness ==
    /\ Reported("rec1")
    /\ LET rows == run["rec1"].cohort_data
       IN  /\ \E e \in Customers(rows) :
                 SingleOrder(rows, e) /\ Len(CustomerRows(rows, e)) >= 2
           /\ \E e \in Customers(rows) : ~SingleOrder(rows, e)

====
